---- MODULE Spec2Model ----
(***************************************************************************)
(* State-machine model of ChronologicalRenderer                            *)
(* (src/src/utils/ChronologicalRenderer.ts): the object pools, the station *)
(* filter, the simulation clock, the animation clock and the trip          *)
(* lifecycle (Pending -> Active -> Completed).                             *)
(*                                                                         *)
(* Time is in milliseconds as in the source.  Date.now() is the variable   *)
(* `now`; the environment action Tick advances it.  All reads of           *)
(* Date.now() inside one method see the same instant.                      *)
(* A ProcessedTrip object is identified by its position in allTrips (the   *)
(* feed and the filtered feed share the objects by reference).  A pooled   *)
(* object is identified by a number given at creation.                     *)
(* Speed is carried in halves (the slider's step is 0.5): speed2 = 2*speed.*)
(***************************************************************************)
EXTENDS Integers, Sequences, FiniteSets, TLC

\* ---------------------------------------------------------------- bounds
\* Largest feed handed to initializeWithData.
MaxTrips == 3
\* stations.length of the loaded station list.
NumStations == 2
\* Number of times the wall clock advances in one behaviour.
MaxTicks == 3
\* Number of method calls and clock advances in one behaviour.
MaxSteps == 7
\* Most pooled objects one pool may create (acquire on an empty pool creates).
MaxCreated == 4
\* Capacity of the Completed buffer.  The source fixes 100 (line 116,
\* `> this.MAX_DISPLAYED_TRIPS` at line 491); the model scales it down so
\* that the cap is reached by the feeds above.
MAX_DISPLAYED_TRIPS == 2
\* Initial pool sizes.  The source pre-populates 100 and 500 objects (lines
\* 146 and 152); scaled down so that both pool hits and pool misses occur.
ActivePoolInitialSize == 1
CompletedPoolInitialSize == 1
\* Date.now() when the renderer is constructed.
StartOfTime == 100000

\* ------------------------------------------------------ program constants
timeScale == 500
maxAge == 300000
fadeStart == 60000

\* Wall-clock intervals between two callbacks (ms).
Deltas == {20, 2500}
\* Values of 2*speed passed to updateSimulation (0.5x and 1x).
Speeds2 == {1, 2}

\* startStationIndex is optional (`startStationIndex?: number`): undefined.
NoStation == -1
\* currentSimTime when no simulated time has been reported: the empty
\* sequence; a reported time t is <<t>>.
NoTime == <<>>

VARIABLES
    loaded,                 \* initializeWithData has run
    allTrips,               \* the feed, sorted by startTimestamp
    stations,               \* stations.length
    stationTripCounts,      \* Map: station index -> trips of the whole feed
    selectedStationIndices,
    filteredTrips,          \* sequence of trips (positions in allTrips)
    activeTrips,            \* sequence of ActiveTrip slots
    completedPaths,         \* sequence of CompletedPath slots
    currentTripIndex,       \* 0-based, as in the source
    simulationTime,
    totalTripsStarted,
    isRunning,
    lastUpdateTime,
    animationTime,
    animationStartTime,
    activeTripPool,         \* [available: free list, created: objects made]
    completedPathPool,
    now,                    \* Date.now()
    ticks,                  \* number of Tick steps taken
    steps,                  \* number of steps taken
    \* ---- observations (history variables, read by no action)
    lastOp,                 \* the method that ran last
    tripsStarted,           \* tripsStarted returned by the last updateSimulation
    currentSimTime,         \* <<currentSimTime>> returned by it; <<>> when it
                            \* returned the wall clock (empty filtered feed)
    lastStarted,            \* trips for which it acquired a slot, in order
    startLog,               \* start events since the last filter/reset/restart
    released,               \* pooled objects the last method released, and
                            \* the trips it moved from Active to Completed
    runningReal,            \* wall-clock ms spent running since restart/reset
    runningSinceSample,     \* wall-clock ms spent running since animationTime
                            \* was last sampled, pauses not counted
    cleanRun,               \* no filter change since the last reset, restart
                            \* or load
    previousRun             \* <<startLog>> of the run the last reset or
                            \* restart ended, if that run was clean and the
                            \* selection has not changed since; else <<>>

engine == <<loaded, allTrips, stations, stationTripCounts,
            selectedStationIndices, filteredTrips,
            activeTrips, completedPaths, currentTripIndex, simulationTime,
            totalTripsStarted, isRunning, lastUpdateTime, animationTime,
            animationStartTime, activeTripPool, completedPathPool>>
runs == <<cleanRun, previousRun>>
observed == <<lastOp, tripsStarted, currentSimTime, lastStarted, startLog,
              released, runningReal, runningSinceSample, runs>>
vars == <<engine, now, ticks, steps, observed>>

\* ---------------------------------------------------------------- helpers
Min(a, b) == IF a < b THEN a ELSE b
Max(a, b) == IF a > b THEN a ELSE b
Range(s) == {s[i] : i \in 1 .. Len(s)}
NoDuplicates(s) == \A i, j \in 1 .. Len(s) : i # j => s[i] # s[j]
\* The trips a sequence of slots references.
TripsOf(slots) == [i \in 1 .. Len(slots) |-> slots[i].trip]
NoRelease == [active |-> <<>>, completed |-> <<>>, finished |-> <<>>, skipped |-> <<>>]

\* ------------------------------------------------------------------ feeds
\* startTimestamp (unix seconds) of the i-th record: 10, 15, 15, 20, ...
\* (a tie between the 2nd and the 3rd).
TimestampOf(i) == 10 + 5 * (i \div 2)
\* duration (ms) of the i-th record: animation durations 1000, 2000, 5000.
DurationOf(i) == CASE i % 3 = 1 -> 8000
                   [] i % 3 = 2 -> 20000
                   [] OTHER     -> 600000
\* The origin stations of the records of a feed, by position: origins that
\* alternate over the stations, one origin for every trip, a feed that starts
\* with an undefined origin and an origin past the end of the station list,
\* and a feed that starts with a negative origin.
OriginPatterns ==
    { [i \in 1 .. MaxTrips |-> (i - 1) % NumStations],
      [i \in 1 .. MaxTrips |-> 0],
      [i \in 1 .. MaxTrips |-> IF i = 1 THEN NoStation
                               ELSE IF i = 2 THEN NumStations
                               ELSE 0],
      [i \in 1 .. MaxTrips |-> IF i = 1 THEN 0 - 2 ELSE 0] }
\* The feeds handed to initializeWithData: the empty feed and one feed of
\* MaxTrips records for each origin pattern.
Feeds ==
    {<<>>} \cup
    { [i \in 1 .. MaxTrips |-> [startTimestamp    |-> TimestampOf(i),
                                duration          |-> DurationOf(i),
                                startStationIndex |-> f[i]]] :
        f \in OriginPatterns }

\* dataLoader.loadAllData sorts the feed before the renderer sees it.
IsSorted(trips) ==
    \A i, j \in 1 .. Len(trips) :
        i < j => trips[i].startTimestamp <= trips[j].startTimestamp

\* -------------------------------------------------------------- ObjectPool
NewPool(initialSize) ==
    [available |-> [i \in 1 .. initialSize |-> i], created |-> initialSize]

\* acquire(): pop the free list, or create a new object.
PoolAcquire(pool) ==
    IF Len(pool.available) > 0
    THEN [obj  |-> pool.available[Len(pool.available)],
          pool |-> [pool EXCEPT !.available = SubSeq(@, 1, Len(@) - 1)]]
    ELSE [obj  |-> pool.created + 1,
          pool |-> [pool EXCEPT !.created = @ + 1]]

\* release(obj): reset the object, push it on the free list.
PoolRelease(pool, obj) == [pool EXCEPT !.available = Append(@, obj)]

RECURSIVE PoolReleaseAll(_, _)
PoolReleaseAll(pool, objs) ==
    IF objs = <<>> THEN pool
    ELSE PoolReleaseAll(PoolRelease(pool, Head(objs)), Tail(objs))

\* ----------------------------------------------------------- station filter
\* The validity test of startTrip and render (lines 442-444, 622-624).
IsValidStation(s) == s # NoStation /\ s >= 0 /\ s < stations

\* _applyStationFilter with the selection `sel` over `n` stations: the new
\* filteredTrips.  An empty selection and a selection of n indices both give
\* the whole feed.
ApplyStationFilter(trips, n, sel) ==
    LET ids == [i \in 1 .. Len(trips) |-> i]
        Keep(i) == /\ trips[i].startStationIndex # NoStation
                   /\ trips[i].startStationIndex >= 0
                   /\ trips[i].startStationIndex < n
                   /\ trips[i].startStationIndex \in sel
    IN  IF Cardinality(sel) = 0 \/ Cardinality(sel) = n
        THEN ids
        ELSE SelectSeq(ids, Keep)

\* _filterActiveTripsAndPaths: the test that keeps an ActiveTrip slot.
KeepActive(a, sel) ==
    /\ allTrips[a.trip].startStationIndex # NoStation
    /\ allTrips[a.trip].startStationIndex \in sel

\* _filterActiveTripsAndPaths: the test that keeps a CompletedPath slot.
KeepCompleted(c, sel) ==
    /\ c.startStationIndex # NoStation
    /\ c.startStationIndex \in sel

\* The pooled objects of a list of slots, in order.
ObjectsOf(slots) == [i \in 1 .. Len(slots) |-> slots[i].obj]

\* Faulty variant of FilterActiveTripsAndPaths: the dropped slots are
\* released but the pruned lists are not assigned back.
FilterKeepsReleasedSlots(sel) ==
    LET DA(a) == ~KeepActive(a, sel)
        DC(c) == ~KeepCompleted(c, sel)
        droppedA == ObjectsOf(SelectSeq(activeTrips, DA))
        droppedC == ObjectsOf(SelectSeq(completedPaths, DC))
    IN  [active    |-> activeTrips,
         completed |-> completedPaths,
         aPool     |-> PoolReleaseAll(activeTripPool, droppedA),
         cPool     |-> PoolReleaseAll(completedPathPool, droppedC),
         released  |-> [active |-> droppedA, completed |-> droppedC,
                        finished |-> <<>>, skipped |-> <<>>]]

\* Faulty variant of FilterActiveTripsAndPaths: a full reset of both lists
\* instead of pruning them.
FilterClearsEverything(sel) ==
    [active    |-> <<>>,
     completed |-> <<>>,
     aPool     |-> PoolReleaseAll(activeTripPool, ObjectsOf(activeTrips)),
     cPool     |-> PoolReleaseAll(completedPathPool, ObjectsOf(completedPaths)),
     released  |-> [active    |-> ObjectsOf(activeTrips),
                    completed |-> ObjectsOf(completedPaths),
                    finished  |-> <<>>, skipped |-> <<>>]]

\* _filterActiveTripsAndPaths: both lists pruned, every dropped slot released.
FilterActiveTripsAndPaths(sel) ==
    LET KA(a) == KeepActive(a, sel)
        KC(c) == KeepCompleted(c, sel)
        DA(a) == ~KeepActive(a, sel)
        DC(c) == ~KeepCompleted(c, sel)
        droppedA == ObjectsOf(SelectSeq(activeTrips, DA))
        droppedC == ObjectsOf(SelectSeq(completedPaths, DC))
    IN  [active    |-> SelectSeq(activeTrips, KA),
         completed |-> SelectSeq(completedPaths, KC),
         aPool     |-> PoolReleaseAll(activeTripPool, droppedA),
         cPool     |-> PoolReleaseAll(completedPathPool, droppedC),
         released  |-> [active |-> droppedA, completed |-> droppedC,
                        finished |-> <<>>, skipped |-> <<>>]]

\* Faulty variant of PrecomputeStationTripCounts: the origin is not
\* validated before it is counted.
PrecomputeCountsUnchecked(trips, n) ==
    LET keys == {trips[i].startStationIndex : i \in 1 .. Len(trips)}
    IN  [k \in keys |->
            Cardinality({i \in 1 .. Len(trips) :
                             trips[i].startStationIndex = k})]

\* _precomputeStationTripCounts over the whole feed `trips` and `n`
\* stations: the map has a key for every valid origin that occurs.
PrecomputeStationTripCounts(trips, n) ==
    LET Valid(i) == /\ trips[i].startStationIndex # NoStation
                    /\ trips[i].startStationIndex >= 0
                    /\ trips[i].startStationIndex < n
        keys == {trips[i].startStationIndex :
                     i \in {j \in 1 .. Len(trips) : Valid(j)}}
    IN  [k \in keys |->
            Cardinality({i \in 1 .. Len(trips) :
                             trips[i].startStationIndex = k})]

\* getStationTripCount(stationIndex): the map's entry, or 0.
GetStationTripCount(stationIndex) ==
    IF stationIndex \in DOMAIN stationTripCounts
    THEN stationTripCounts[stationIndex]
    ELSE 0

TripStartTime(t) == allTrips[t].startTimestamp * 1000

\* setSelectedStations, lines 207-215: the loop that counts the trips of
\* `ft` at or before `simTime`, stopping at the first later one.
RECURSIVE CountStarted(_, _, _)
CountStarted(ft, i, simTime) ==
    IF i < Len(ft) /\ TripStartTime(ft[i + 1]) <= simTime
    THEN CountStarted(ft, i + 1, simTime)
    ELSE i

\* setSelectedStations, lines 202-219: the feed pointer after the filter
\* change; `ft` is the new filtered feed, `simBefore` the simulation offset.
AdjustedTripIndex(ft, simBefore) ==
    IF Len(ft) > 0 /\ simBefore > 0
    THEN CountStarted(ft, 0, TripStartTime(ft[1]) + simBefore)
    ELSE currentTripIndex

\* ------------------------------------------------------------ trip lifecycle
\* Faulty variant of DueTrips: the due trips are visited from the last one
\* back to the feed pointer.
RECURSIVE DueTripsBackwards(_, _)
DueTripsBackwards(idx, simTime) ==
    IF idx < Len(filteredTrips) /\ TripStartTime(filteredTrips[idx + 1]) <= simTime
    THEN DueTripsBackwards(idx + 1, simTime) \o <<filteredTrips[idx + 1]>>
    ELSE <<>>

\* Faulty variant of DueTrips: the loop is an `if`, at most one trip starts
\* per call.
DueTripsOnePerTick(idx, simTime) ==
    IF idx < Len(filteredTrips) /\ TripStartTime(filteredTrips[idx + 1]) <= simTime
    THEN <<filteredTrips[idx + 1]>>
    ELSE <<>>

\* updateSimulation, lines 411-423: the trips the while loop visits, from
\* the feed pointer `idx` on, in the order it visits them.
RECURSIVE DueTrips(_, _)
DueTrips(idx, simTime) ==
    IF idx < Len(filteredTrips) /\ TripStartTime(filteredTrips[idx + 1]) <= simTime
    THEN <<filteredTrips[idx + 1]>> \o DueTrips(idx + 1, simTime)
    ELSE <<>>

\* startTrip, line 451.  Feed durations are multiples of 10.
AnimationDuration(t) == Max(1000, Min(5000, allTrips[t].duration \div 10))

\* Faulty variant of StartTrip: the guard on the origin station is missing.
StartTripAlways(s, t) ==
    LET a == PoolAcquire(s.pool)
    IN  [active  |-> Append(s.active,
                            [obj               |-> a.obj,
                             trip              |-> t,
                             startTime         |-> animationTime,
                             progress          |-> [num |-> 0,
                                                    den |-> AnimationDuration(t)],
                             animationDuration |-> AnimationDuration(t)]),
         pool    |-> a.pool,
         started |-> Append(s.started, t)]

\* startTrip(trip) applied to s = [active, pool, started]: refuse an invalid
\* or unselected origin, else acquire a slot stamped with the animation
\* clock as last sampled.
StartTrip(s, t) ==
    IF \/ ~IsValidStation(allTrips[t].startStationIndex)
       \/ allTrips[t].startStationIndex \notin selectedStationIndices
    THEN s
    ELSE LET a == PoolAcquire(s.pool)
         IN  [active  |-> Append(s.active,
                                 [obj               |-> a.obj,
                                  trip              |-> t,
                                  startTime         |-> animationTime,
                                  progress          |-> [num |-> 0,
                                                         den |-> AnimationDuration(t)],
                                  animationDuration |-> AnimationDuration(t)]),
              pool    |-> a.pool,
              started |-> Append(s.started, t)]

RECURSIVE StartTrips(_, _)
StartTrips(s, due) ==
    IF due = <<>> THEN s
    ELSE StartTrips(StartTrip(s, Head(due)), Tail(due))

\* Faulty variant of EnforceCap: the cap is not enforced.
EnforceCapNever(s) == s

\* Faulty variant of EnforceCap: the newest entry is removed (pop) instead
\* of the oldest (shift).
EnforceCapNewest(s) ==
    IF Len(s.completed) > MAX_DISPLAYED_TRIPS
    THEN [s EXCEPT !.completed = SubSeq(@, 1, Len(@) - 1),
                   !.cPool = PoolRelease(@, s.completed[Len(s.completed)].obj),
                   !.evicted = Append(@, s.completed[Len(s.completed)].obj)]
    ELSE s

\* updateActiveTrips, lines 490-494: the FIFO cap after a push.
EnforceCap(s) ==
    IF Len(s.completed) > MAX_DISPLAYED_TRIPS
    THEN [s EXCEPT !.completed = Tail(@),
                   !.cPool = PoolRelease(@, Head(s.completed).obj),
                   !.evicted = Append(@, Head(s.completed).obj)]
    ELSE s

\* Faulty variant of UpdateActiveTrip: a slot whose progress has reached 1
\* is kept in the Active set.
UpdateActiveTripNeverRetires(s, a, animT) ==
    LET elapsed == animT - a.startTime
        num == Min(elapsed, a.animationDuration)
    IN  [s EXCEPT !.active = Append(@,
             [a EXCEPT !.progress = [num |-> num,
                                     den |-> a.animationDuration]])]

\* updateActiveTrips, lines 470-500: one slot of the filter callback, at
\* animation time animT.  progress = min(1, elapsed / animationDuration) is
\* kept as the fraction num/den with den = animationDuration.
UpdateActiveTrip(s, a, animT) ==
    LET elapsed == animT - a.startTime
        num == Min(elapsed, a.animationDuration)
    IN  IF num >= a.animationDuration
        THEN LET c == PoolAcquire(s.cPool)
             IN  EnforceCap(
                     [s EXCEPT
                        !.completed = Append(@,
                            [obj               |-> c.obj,
                             trip              |-> a.trip,
                             completedAt       |-> animT,
                             startStationIndex |->
                                 allTrips[a.trip].startStationIndex]),
                        !.cPool = c.pool,
                        !.aPool = PoolRelease(@, a.obj),
                        !.finished = Append(@, a.obj),
                        !.finishedTrips = Append(@, a.trip)])
        ELSE [s EXCEPT !.active = Append(@,
                  [a EXCEPT !.progress = [num |-> num,
                                          den |-> a.animationDuration]])]

RECURSIVE UpdateActiveTrips(_, _, _)
UpdateActiveTrips(s, active, animT) ==
    IF active = <<>> THEN s
    ELSE UpdateActiveTrips(UpdateActiveTrip(s, Head(active), animT),
                           Tail(active), animT)

\* ------------------------------------------------------------------- Init
\* The state the constructor leaves (field initialisers, lines 106-131, and
\* the two pools of lines 143-153).
Init ==
    /\ loaded = FALSE
    /\ allTrips = <<>>
    /\ stations = 0
    /\ stationTripCounts = [i \in {} |-> 0]
    /\ selectedStationIndices = {}
    /\ filteredTrips = <<>>
    /\ activeTrips = <<>>
    /\ completedPaths = <<>>
    /\ currentTripIndex = 0
    /\ simulationTime = 0
    /\ totalTripsStarted = 0
    /\ isRunning = FALSE
    /\ lastUpdateTime = 0
    /\ animationTime = 0
    /\ animationStartTime = 0
    /\ activeTripPool = NewPool(ActivePoolInitialSize)
    /\ completedPathPool = NewPool(CompletedPoolInitialSize)
    /\ now = StartOfTime
    /\ ticks = 0
    /\ steps = 0
    /\ lastOp = "constructor"
    /\ tripsStarted = 0
    /\ currentSimTime = NoTime
    /\ lastStarted = <<>>
    /\ startLog = <<>>
    /\ released = NoRelease
    /\ runningReal = 0
    /\ runningSinceSample = 0
    /\ cleanRun = TRUE
    /\ previousRun = <<>>

\* ---------------------------------------------------------------- actions
\* The wall clock advances by d ms between two callbacks.
Tick(d) ==
    /\ ticks < MaxTicks
    /\ now' = now + d
    /\ ticks' = ticks + 1
    /\ lastOp' = "tick"
    /\ runningReal' = IF isRunning THEN runningReal + d ELSE runningReal
    /\ runningSinceSample' = IF isRunning THEN runningSinceSample + d
                                         ELSE runningSinceSample
    /\ UNCHANGED <<engine, tripsStarted, currentSimTime, lastStarted, startLog,
                   released, runs>>

\* initializeWithData(trips, stations), called once by the host after loading.
InitializeWithData(trips) ==
    /\ ~loaded
    /\ IsSorted(trips)
    /\ loaded' = TRUE
    /\ allTrips' = trips
    /\ stations' = NumStations
    /\ stationTripCounts' = PrecomputeStationTripCounts(trips, NumStations)
    /\ selectedStationIndices' = 0 .. (NumStations - 1)
    /\ filteredTrips' = ApplyStationFilter(trips, NumStations,
                                           0 .. (NumStations - 1))
    /\ currentTripIndex' = 0
    /\ lastOp' = "initializeWithData"
    /\ startLog' = <<>>
    /\ released' = NoRelease
    /\ cleanRun' = TRUE
    /\ previousRun' = <<>>
    /\ UNCHANGED <<activeTrips, completedPaths, simulationTime,
                   totalTripsStarted, isRunning, lastUpdateTime, animationTime,
                   animationStartTime, activeTripPool, completedPathPool,
                   now, ticks, tripsStarted, currentSimTime, lastStarted,
                   runningReal, runningSinceSample>>

\* Faulty variant of SetSelectedStations: the filter change restarts the
\* playback position (offset and counter zeroed).
SetSelectedStationsRestarts(indices) ==
    LET ft == ApplyStationFilter(allTrips, stations, indices)
        f  == FilterActiveTripsAndPaths(indices)
    IN  /\ selectedStationIndices' = indices
        /\ filteredTrips' = ft
        /\ activeTrips' = f.active
        /\ completedPaths' = f.completed
        /\ activeTripPool' = f.aPool
        /\ completedPathPool' = f.cPool
        /\ currentTripIndex' = 0
        /\ simulationTime' = 0
        /\ totalTripsStarted' = 0
        /\ lastUpdateTime' = IF isRunning THEN now ELSE lastUpdateTime
        /\ lastOp' = "setSelectedStations"
        /\ startLog' = <<>>
        /\ released' = f.released
        /\ cleanRun' = FALSE
        /\ previousRun' = <<>>
        /\ UNCHANGED <<loaded, allTrips, stations, stationTripCounts, isRunning, animationTime,
                       animationStartTime, now, ticks, tripsStarted,
                       currentSimTime, lastStarted, runningReal,
                       runningSinceSample>>

\* setSelectedStations(indices).
SetSelectedStations(indices) ==
    LET ft == ApplyStationFilter(allTrips, stations, indices)
        f  == FilterActiveTripsAndPaths(indices)
    IN  /\ selectedStationIndices' = indices
        /\ filteredTrips' = ft
        /\ activeTrips' = f.active
        /\ completedPaths' = f.completed
        /\ activeTripPool' = f.aPool
        /\ completedPathPool' = f.cPool
        /\ currentTripIndex' = AdjustedTripIndex(ft, simulationTime)
        /\ lastUpdateTime' = IF isRunning THEN now ELSE lastUpdateTime
        /\ lastOp' = "setSelectedStations"
        /\ startLog' = <<>>
        /\ released' = f.released
        /\ cleanRun' = FALSE
        /\ previousRun' = <<>>
        /\ UNCHANGED <<loaded, allTrips, stations, stationTripCounts, simulationTime,
                       totalTripsStarted, isRunning, animationTime,
                       animationStartTime, now, ticks, tripsStarted,
                       currentSimTime, lastStarted, runningReal,
                       runningSinceSample>>

\* Faulty variant of StartSimulation: every start is a true restart.
StartSimulationAlwaysRestarts ==
    /\ currentTripIndex' = 0
    /\ activeTrips' = <<>>
    /\ completedPaths' = <<>>
    /\ simulationTime' = 0
    /\ totalTripsStarted' = 0
    /\ animationTime' = 0
    /\ animationStartTime' = now
    /\ startLog' = <<>>
    /\ currentSimTime' = NoTime
    /\ runningReal' = 0
    /\ runningSinceSample' = 0
    /\ cleanRun' = TRUE
    /\ previousRun' = IF cleanRun /\ startLog # <<>>
                       THEN <<startLog>> ELSE previousRun
    /\ isRunning' = TRUE
    /\ lastUpdateTime' = now
    /\ lastOp' = "startSimulation"
    /\ released' = NoRelease
    /\ UNCHANGED <<loaded, allTrips, stations, stationTripCounts, selectedStationIndices,
                   filteredTrips, activeTripPool, completedPathPool, now,
                   ticks, tripsStarted, lastStarted>>

\* startSimulation(): a true restart when the offset is 0, else a resume.
StartSimulation ==
    /\ IF simulationTime = 0
       THEN /\ currentTripIndex' = 0
            /\ activeTrips' = <<>>
            /\ completedPaths' = <<>>
            /\ simulationTime' = 0
            /\ totalTripsStarted' = 0
            /\ animationTime' = 0
            /\ animationStartTime' = now
            /\ startLog' = <<>>
            /\ currentSimTime' = NoTime
            /\ runningReal' = 0
            /\ runningSinceSample' = 0
            /\ cleanRun' = TRUE
            /\ previousRun' = IF cleanRun /\ startLog # <<>>
                               THEN <<startLog>> ELSE previousRun
       ELSE /\ animationStartTime' = now - animationTime
            /\ runningSinceSample' = IF isRunning THEN 0
                                                  ELSE runningSinceSample
            /\ UNCHANGED <<currentTripIndex, activeTrips, completedPaths,
                           simulationTime, totalTripsStarted, animationTime,
                           startLog, currentSimTime, runningReal, runs>>
    /\ isRunning' = TRUE
    /\ lastUpdateTime' = now
    /\ lastOp' = "startSimulation"
    /\ released' = NoRelease
    /\ UNCHANGED <<loaded, allTrips, stations, stationTripCounts, selectedStationIndices,
                   filteredTrips, activeTripPool, completedPathPool, now,
                   ticks, tripsStarted, lastStarted>>

\* updateSimulation(speed), speed = speed2 / 2.
UpdateSimulation(speed2) ==
    IF Len(filteredTrips) = 0
    THEN /\ lastOp' = "updateSimulation"
         /\ tripsStarted' = 0
         /\ currentSimTime' = NoTime
         /\ lastStarted' = <<>>
         /\ released' = NoRelease
         /\ UNCHANGED <<engine, now, ticks, startLog, runningReal,
                        runningSinceSample, runs>>
    ELSE LET simT == IF isRunning
                     THEN simulationTime
                          + ((now - lastUpdateTime) * timeScale * speed2) \div 2
                     ELSE simulationTime
             simNow == TripStartTime(filteredTrips[1]) + simT
             due == IF isRunning THEN DueTrips(currentTripIndex, simNow)
                                 ELSE <<>>
             st == StartTrips([active  |-> activeTrips,
                               pool    |-> activeTripPool,
                               started |-> <<>>], due)
             animT == IF isRunning THEN now - animationStartTime
                                   ELSE animationTime
             up == UpdateActiveTrips([active    |-> <<>>,
                                      completed |-> completedPaths,
                                      aPool     |-> st.pool,
                                      cPool     |-> completedPathPool,
                                      finished  |-> <<>>,
                                      finishedTrips |-> <<>>,
                                      evicted   |-> <<>>],
                                     st.active, animT)
         IN  /\ up.aPool.created <= MaxCreated
             /\ up.cPool.created <= MaxCreated
             /\ simulationTime' = simT
             /\ lastUpdateTime' = IF isRunning THEN now ELSE lastUpdateTime
             /\ currentTripIndex' = currentTripIndex + Len(due)
             /\ totalTripsStarted' = totalTripsStarted + Len(due)
             /\ animationTime' = animT
             /\ activeTrips' = up.active
             /\ completedPaths' = up.completed
             /\ activeTripPool' = up.aPool
             /\ completedPathPool' = up.cPool
             /\ lastOp' = "updateSimulation"
             /\ tripsStarted' = Len(due)
             /\ currentSimTime' = <<simNow>>
             /\ lastStarted' = st.started
             /\ startLog' = startLog \o st.started
             /\ released' = [active    |-> up.finished,
                             completed |-> up.evicted,
                             finished  |-> up.finishedTrips, skipped |-> <<>>]
             /\ runningSinceSample' = IF isRunning THEN 0
                                                   ELSE runningSinceSample
             /\ UNCHANGED <<loaded, allTrips, stations, stationTripCounts, selectedStationIndices,
                            filteredTrips, isRunning, animationStartTime, now,
                            ticks, runningReal, runs>>

\* pause().
Pause ==
    /\ isRunning' = FALSE
    /\ lastOp' = "pause"
    /\ released' = NoRelease
    /\ UNCHANGED <<loaded, allTrips, stations, stationTripCounts, selectedStationIndices,
                   filteredTrips, activeTrips, completedPaths,
                   currentTripIndex, simulationTime, totalTripsStarted,
                   lastUpdateTime, animationTime, animationStartTime,
                   activeTripPool, completedPathPool, now, ticks,
                   tripsStarted, currentSimTime, lastStarted, startLog,
                   runningReal, runningSinceSample, runs>>

\* Faulty variant of Resume: resuming rewinds the feed pointer.
ResumeRewinds ==
    /\ isRunning' = TRUE
    /\ lastUpdateTime' = now
    /\ animationStartTime' = now - animationTime
    /\ currentTripIndex' = 0
    /\ lastOp' = "resume"
    /\ released' = NoRelease
    /\ runningSinceSample' = IF isRunning THEN 0 ELSE runningSinceSample
    /\ UNCHANGED <<loaded, allTrips, stations, stationTripCounts, selectedStationIndices,
                   filteredTrips, activeTrips, completedPaths,
                   simulationTime, totalTripsStarted,
                   animationTime, activeTripPool, completedPathPool, now,
                   ticks, tripsStarted, currentSimTime, lastStarted, startLog,
                   runningReal, runs>>

\* Faulty variant of Resume: the last-sample timestamp is not re-anchored.
ResumeKeepsLastSample ==
    /\ isRunning' = TRUE
    /\ animationStartTime' = now - animationTime
    /\ lastOp' = "resume"
    /\ released' = NoRelease
    /\ runningSinceSample' = IF isRunning THEN 0 ELSE runningSinceSample
    /\ UNCHANGED <<loaded, allTrips, stations, stationTripCounts, selectedStationIndices,
                   filteredTrips, activeTrips, completedPaths,
                   currentTripIndex, simulationTime, totalTripsStarted,
                   lastUpdateTime, animationTime, activeTripPool,
                   completedPathPool, now, ticks, tripsStarted,
                   currentSimTime, lastStarted, startLog, runningReal, runs>>

\* resume().
Resume ==
    /\ isRunning' = TRUE
    /\ lastUpdateTime' = now
    /\ animationStartTime' = now - animationTime
    /\ lastOp' = "resume"
    /\ released' = NoRelease
    /\ runningSinceSample' = IF isRunning THEN 0 ELSE runningSinceSample
    /\ UNCHANGED <<loaded, allTrips, stations, stationTripCounts, selectedStationIndices,
                   filteredTrips, activeTrips, completedPaths,
                   currentTripIndex, simulationTime, totalTripsStarted,
                   animationTime, activeTripPool, completedPathPool, now,
                   ticks, tripsStarted, currentSimTime, lastStarted, startLog,
                   runningReal, runs>>

\* Faulty variant of RenderKeeps: completed paths never expire.
RenderKeepsForever(c) ==
    /\ IsValidStation(c.startStationIndex)
    /\ c.startStationIndex \in selectedStationIndices

\* render(), lines 620-653: the test that keeps a CompletedPath slot.
RenderKeeps(c) ==
    /\ IsValidStation(c.startStationIndex)
    /\ c.startStationIndex \in selectedStationIndices
    /\ ~(animationTime - c.completedAt > maxAge)

\* The distance in pixels between the projected endpoints of the i-th record
\* of a feed: a visible path, a round trip (both ends project to the same
\* pixel) and a record whose end projects far outside the canvas.
PixelDistanceOf(i) == CASE i % 3 = 1 -> 40
                        [] i % 3 = 2 -> 0
                        [] OTHER     -> 9000
\* The canvas the paths are drawn on.
canvas == [width |-> 800, height |-> 600]

\* drawPath(), lines 571-574: the path of trip t is skipped, and nothing is
\* drawn, when its endpoints are too close or implausibly far apart.  What
\* drawPath does otherwise goes to the 2D context only.
DrawPathSkips(t) ==
    \/ PixelDistanceOf(t) < 2
    \/ PixelDistanceOf(t) > Max(canvas.width, canvas.height) * 2

\* render(), lines 635-669: the trips of the frame whose drawPath call
\* returns without drawing: completed paths the frame retains, then active
\* trips of selected stations.
SkippedPaths ==
    LET SkipsCompleted(c) == RenderKeeps(c) /\ DrawPathSkips(c.trip)
        SkipsActive(a) ==
            /\ \/ allTrips[a.trip].startStationIndex = NoStation
               \/ allTrips[a.trip].startStationIndex
                      \in selectedStationIndices
            /\ DrawPathSkips(a.trip)
    IN  TripsOf(SelectSeq(completedPaths, SkipsCompleted))
            \o TripsOf(SelectSeq(activeTrips, SkipsActive))

\* render(), lines 639-644: the opacity a retained completed path is drawn
\* with at `age`, as the fraction num/den.  The base opacity of a completed
\* path is 0.6 (line 480); fading starts after fadeStart ms.
FadedOpacity(age) ==
    IF age > fadeStart
    THEN [num |-> 6 * ((maxAge - fadeStart) - (age - fadeStart)),
          den |-> 10 * (maxAge - fadeStart)]
    ELSE [num |-> 6, den |-> 10]

\* Faulty variant of Render: the frame callback samples the animation clock.
RenderSamplesClock ==
    LET Drop(c) == ~RenderKeeps(c)
        dropped == ObjectsOf(SelectSeq(completedPaths, Drop))
    IN  /\ completedPaths' = SelectSeq(completedPaths, RenderKeeps)
        /\ completedPathPool' = PoolReleaseAll(completedPathPool, dropped)
        /\ animationTime' = IF isRunning THEN now - animationStartTime
                                         ELSE animationTime
        /\ lastOp' = "render"
        /\ released' = [active |-> <<>>, completed |-> dropped,
                        finished |-> <<>>,
                        skipped |-> SkippedPaths]
        /\ UNCHANGED <<loaded, allTrips, stations, stationTripCounts,
                       selectedStationIndices,
                       filteredTrips, activeTrips, currentTripIndex,
                       simulationTime, totalTripsStarted, isRunning,
                       lastUpdateTime, animationStartTime,
                       activeTripPool, now, ticks, tripsStarted,
                       currentSimTime, lastStarted, startLog, runningReal,
                       runningSinceSample, runs>>

\* render(): drawing changes no field; expired and unselected completed
\* paths are removed and released.
Render ==
    LET Drop(c) == ~RenderKeeps(c)
        dropped == ObjectsOf(SelectSeq(completedPaths, Drop))
    IN  /\ completedPaths' = SelectSeq(completedPaths, RenderKeeps)
        /\ completedPathPool' = PoolReleaseAll(completedPathPool, dropped)
        /\ lastOp' = "render"
        /\ released' = [active |-> <<>>, completed |-> dropped,
                        finished |-> <<>>,
                        skipped |-> SkippedPaths]
        /\ UNCHANGED <<loaded, allTrips, stations, stationTripCounts, selectedStationIndices,
                       filteredTrips, activeTrips, currentTripIndex,
                       simulationTime, totalTripsStarted, isRunning,
                       lastUpdateTime, animationTime, animationStartTime,
                       activeTripPool, now, ticks, tripsStarted,
                       currentSimTime, lastStarted, startLog, runningReal,
                       runningSinceSample, runs>>

\* Faulty variant of Reset: the two lists are emptied without releasing
\* their slots (as the restart branch of startSimulation does).
ResetDropsSlots ==
    /\ currentTripIndex' = 0
    /\ activeTrips' = <<>>
    /\ completedPaths' = <<>>
    /\ simulationTime' = 0
    /\ totalTripsStarted' = 0
    /\ isRunning' = FALSE
    /\ animationTime' = 0
    /\ animationStartTime' = 0
    /\ lastUpdateTime' = 0
    /\ lastOp' = "reset"
    /\ startLog' = <<>>
    /\ currentSimTime' = NoTime
    /\ released' = NoRelease
    /\ runningReal' = 0
    /\ runningSinceSample' = 0
    /\ cleanRun' = TRUE
    /\ previousRun' = IF cleanRun /\ startLog # <<>>
                       THEN <<startLog>> ELSE previousRun
    /\ UNCHANGED <<loaded, allTrips, stations, stationTripCounts, selectedStationIndices,
                   filteredTrips, activeTripPool, completedPathPool, now,
                   ticks, tripsStarted, lastStarted>>

\* Faulty variant of Reset: the feed pointer is not zeroed.
ResetKeepsPointer ==
    /\ activeTripPool' = PoolReleaseAll(activeTripPool, ObjectsOf(activeTrips))
    /\ completedPathPool' = PoolReleaseAll(completedPathPool,
                                           ObjectsOf(completedPaths))
    /\ activeTrips' = <<>>
    /\ completedPaths' = <<>>
    /\ simulationTime' = 0
    /\ totalTripsStarted' = 0
    /\ isRunning' = FALSE
    /\ animationTime' = 0
    /\ animationStartTime' = 0
    /\ lastUpdateTime' = 0
    /\ lastOp' = "reset"
    /\ startLog' = <<>>
    /\ currentSimTime' = NoTime
    /\ released' = [active    |-> ObjectsOf(activeTrips),
                    completed |-> ObjectsOf(completedPaths),
                    finished  |-> <<>>, skipped |-> <<>>]
    /\ runningReal' = 0
    /\ runningSinceSample' = 0
    /\ cleanRun' = TRUE
    /\ previousRun' = IF cleanRun /\ startLog # <<>>
                       THEN <<startLog>> ELSE previousRun
    /\ UNCHANGED <<loaded, allTrips, stations, stationTripCounts, selectedStationIndices,
                   filteredTrips, currentTripIndex, now, ticks, tripsStarted,
                   lastStarted>>

\* reset().
Reset ==
    /\ activeTripPool' = PoolReleaseAll(activeTripPool, ObjectsOf(activeTrips))
    /\ completedPathPool' = PoolReleaseAll(completedPathPool,
                                           ObjectsOf(completedPaths))
    /\ currentTripIndex' = 0
    /\ activeTrips' = <<>>
    /\ completedPaths' = <<>>
    /\ simulationTime' = 0
    /\ totalTripsStarted' = 0
    /\ isRunning' = FALSE
    /\ animationTime' = 0
    /\ animationStartTime' = 0
    /\ lastUpdateTime' = 0
    /\ lastOp' = "reset"
    /\ startLog' = <<>>
    /\ currentSimTime' = NoTime
    /\ released' = [active    |-> ObjectsOf(activeTrips),
                    completed |-> ObjectsOf(completedPaths),
                    finished  |-> <<>>, skipped |-> <<>>]
    /\ runningReal' = 0
    /\ runningSinceSample' = 0
    /\ cleanRun' = TRUE
    /\ previousRun' = IF cleanRun /\ startLog # <<>>
                       THEN <<startLog>> ELSE previousRun
    /\ UNCHANGED <<loaded, allTrips, stations, stationTripCounts, selectedStationIndices,
                   filteredTrips, now, ticks, tripsStarted, lastStarted>>

\* getStats(): a pure read.  progress = currentTripIndex / filteredTrips.length
\* is kept as the fraction num/den; 0 when the filtered feed is empty.
GetStats ==
    [totalTrips          |-> Len(filteredTrips),
     currentTripIndex    |-> currentTripIndex,
     totalTripsStarted   |-> totalTripsStarted,
     activeTrips         |-> Len(activeTrips),
     completedPaths      |-> Len(completedPaths),
     displayedTrips      |-> Len(activeTrips) + Len(completedPaths),
     progress            |-> IF Len(filteredTrips) > 0
                             THEN [num |-> currentTripIndex,
                                   den |-> Len(filteredTrips)]
                             ELSE [num |-> 0, den |-> 1],
     activeTripPoolSize    |-> Len(activeTripPool.available),
     completedPathPoolSize |-> Len(completedPathPool.available),
     totalAvailableTrips |-> Len(filteredTrips),
     selectedStations    |-> Cardinality(selectedStationIndices),
     totalStations       |-> stations]

\* The hours the host's time-jump buttons pass (DigitalClock: -6 and +6).
JumpHours == {-6, 6}

\* jumpTime(hours): the host calls it (handleTimeJumpInternal), the renderer
\* under study does not define it.  Modelled from the specification of
\* jump(hours): hours * 3600000 ms are added to the offset, whatever the
\* running state; nothing else changes.
JumpTime(hours) ==
    /\ simulationTime' = simulationTime + hours * 3600000
    /\ lastOp' = "jumpTime"
    /\ released' = NoRelease
    /\ UNCHANGED <<loaded, allTrips, stations, stationTripCounts, selectedStationIndices,
                   filteredTrips, activeTrips, completedPaths,
                   currentTripIndex, totalTripsStarted, isRunning,
                   lastUpdateTime, animationTime, animationStartTime,
                   activeTripPool, completedPathPool, now, ticks,
                   tripsStarted, currentSimTime, lastStarted, startLog,
                   runningReal, runningSinceSample, runs>>

\* One step: a clock advance or one call of a method, counted.
Step(A) == steps < MaxSteps /\ steps' = steps + 1 /\ A

Next ==
    \/ \E d \in Deltas : Step(Tick(d))
    \/ \E trips \in Feeds : Step(InitializeWithData(trips))
    \/ \E indices \in SUBSET (0 .. (NumStations - 1)) :
           Step(SetSelectedStations(indices))
    \/ Step(StartSimulation)
    \/ \E speed2 \in Speeds2 : Step(UpdateSimulation(speed2))
    \/ Step(Pause)
    \/ Step(Resume)
    \/ Step(Render)
    \/ Step(Reset)

Spec == Init /\ [][Next]_vars

\* The engine together with the host's time-jump callback.
NextJump ==
    \/ Next
    \/ \E hours \in JumpHours : Step(JumpTime(hours))

SpecJump == Init /\ [][NextJump]_vars

\* Wall-clock intervals as long as the retention window of completed paths
\* (a tab left open: maxAge ms exactly, and one ms more).
LongDeltas == {maxAge, maxAge + 1}

\* The engine over a session long enough for completed paths to age.
NextAging ==
    \/ Next
    \/ \E d \in LongDeltas : Step(Tick(d))

SpecAging == Init /\ [][NextAging]_vars

\* ================================================================= claims
Timestamp(t) == allTrips[t].startTimestamp
OriginOf(t) == allTrips[t].startStationIndex
\* The largest 2*speed the model passes to updateSimulation.
MaxSpeed2 == CHOOSE m \in Speeds2 : \A x \in Speeds2 : x <= m

\* C1: between two filter changes, resets or restarts, the trips that become
\* Active do so in non-decreasing startTimestamp order over any sequence of
\* updateSimulation, pause and resume calls, and the trips started by one
\* updateSimulation call are in strictly ascending feed order.
C1_StartsInFeedOrder ==
    /\ \A i, j \in 1 .. Len(startLog) :
           i < j => Timestamp(startLog[i]) <= Timestamp(startLog[j])
    /\ \A i, j \in 1 .. Len(lastStarted) :
           i < j => lastStarted[i] < lastStarted[j]

\* Two ticks have started trips, the last one several at once.
C1_Witness ==
    /\ lastOp = "updateSimulation"
    /\ Len(lastStarted) >= 2
    /\ Len(startLog) > Len(lastStarted)

\* C2: no trip is referenced by two slots of the Active set.
C2_OneSlotPerTrip ==
    \A i, j \in 1 .. Len(activeTrips) :
        i # j => activeTrips[i].trip # activeTrips[j].trip

\* The 0-based index of the first trip of ft whose timestamp exceeds simTime.
FirstIndexAfter(ft, simTime) ==
    Cardinality({i \in 1 .. Len(ft) : TripStartTime(ft[i]) <= simTime})

\* C3: setSelectedStations places the feed pointer at the first index of the
\* new filtered feed whose timestamp exceeds T, the simulated time reported
\* by the last updateSimulation: when the pointer stood there in the old
\* filtered feed (every trip up to T started, none after T), it stands there
\* in the new one, so that no trip up to T is started again and none after T
\* is skipped.
C3_PointerAtFirstTripAfterT ==
    [][(/\ lastOp' = "setSelectedStations"
        /\ currentSimTime # NoTime
        /\ Len(filteredTrips) > 0
        /\ Len(filteredTrips') > 0
        /\ currentTripIndex = FirstIndexAfter(filteredTrips, currentSimTime[1]))
       => currentTripIndex' = FirstIndexAfter(filteredTrips', currentSimTime[1])
    ]_vars

\* C4: the Completed buffer never holds more than MAX_DISPLAYED_TRIPS paths.
C4_CompletedWithinCap == Len(completedPaths) <= MAX_DISPLAYED_TRIPS

\* An update has evicted a path and left the buffer full.
C4_Witness ==
    /\ lastOp = "updateSimulation"
    /\ Len(completedPaths) = MAX_DISPLAYED_TRIPS
    /\ Len(released.completed) >= 1

\* C5: an updateSimulation call leaves in the Completed buffer exactly the
\* newest MAX_DISPLAYED_TRIPS of (old buffer, then the trips completed by the
\* call, in completion order); every older entry was removed from the head
\* and its object released: it is in the free list or was acquired again by
\* a later completion of the same call, the last one removed is in the free
\* list.
C5_StrictFifo ==
    [][lastOp' = "updateSimulation" =>
        LET all == TripsOf(completedPaths) \o released'.finished
            e   == Max(0, Len(all) - MAX_DISPLAYED_TRIPS)
            old == Min(e, Len(completedPaths))
        IN  /\ TripsOf(completedPaths') = SubSeq(all, e + 1, Len(all))
            /\ \A i \in 1 .. Len(completedPaths) - old :
                   completedPaths'[i] = completedPaths[i + old]
            /\ \A i \in 1 .. old :
                   \/ completedPaths[i].obj \in Range(completedPathPool'.available)
                   \/ completedPaths[i].obj \in Range(ObjectsOf(completedPaths'))
            /\ old >= 1 /\ old = e =>
                   /\ completedPaths[old].obj \in Range(completedPathPool'.available)
                   /\ completedPaths[old].obj \notin Range(ObjectsOf(completedPaths'))
    ]_vars

\* A completion has pushed the full buffer above capacity: exactly one path,
\* the oldest, was evicted.
C5_Witness ==
    /\ lastOp = "updateSimulation"
    /\ Len(released.finished) = 1
    /\ Len(released.completed) = 1
    /\ Len(completedPaths) = MAX_DISPLAYED_TRIPS
    /\ released.completed[1] \in Range(completedPathPool.available)

\* C6: no pooled object is both in use and in its pool's free list, none is
\* in use twice, none is in a free list twice.
C6_PoolOwnership ==
    /\ NoDuplicates(ObjectsOf(activeTrips) \o activeTripPool.available)
    /\ NoDuplicates(ObjectsOf(completedPaths) \o completedPathPool.available)

\* Both pools have objects in use and objects released back to them.
C6_Witness ==
    /\ Len(activeTrips) > 0
    /\ Len(completedPaths) > 0
    /\ Len(activeTripPool.available) > 0
    /\ Len(completedPathPool.available) > 0
    /\ released # NoRelease

\* C7: setSelectedStations(S) leaves in the Active set and the Completed
\* buffer exactly the slots whose origin is in S, in their order and with
\* their fields unchanged, and every slot it removed is in its pool's free
\* list.
C7_PruneInPlace ==
    [][lastOp' = "setSelectedStations" =>
        LET S == selectedStationIndices'
            InA(a) == OriginOf(a.trip) \in S
            InC(c) == c.startStationIndex \in S
        IN  /\ \A i \in 1 .. Len(activeTrips') : InA(activeTrips'[i])
            /\ \A i \in 1 .. Len(completedPaths') : InC(completedPaths'[i])
            /\ activeTrips' = SelectSeq(activeTrips, InA)
            /\ completedPaths' = SelectSeq(completedPaths, InC)
            /\ \A i \in 1 .. Len(activeTrips) :
                   ~InA(activeTrips[i]) =>
                       activeTrips[i].obj \in Range(activeTripPool'.available)
            /\ \A i \in 1 .. Len(completedPaths) :
                   ~InC(completedPaths[i]) =>
                       completedPaths[i].obj \in Range(completedPathPool'.available)
    ]_vars

\* A filter change has removed slots and kept others, in both lists.
C7_Witness ==
    /\ lastOp = "setSelectedStations"
    /\ Len(released.active) + Len(released.completed) >= 1
    /\ Len(activeTrips) >= 1
    /\ Len(completedPaths) >= 1

\* C8: setSelectedStations leaves the simulated offset, the animation clock
\* and its origin, totalTripsStarted and the running flag unchanged.
C8_FilterKeepsPlayback ==
    [][lastOp' = "setSelectedStations" =>
        /\ simulationTime' = simulationTime
        /\ animationTime' = animationTime
        /\ animationStartTime' = animationStartTime
        /\ totalTripsStarted' = totalTripsStarted
        /\ isRunning' = isRunning
    ]_vars

\* A filter change in the middle of a running playback.
C8_Witness ==
    /\ lastOp = "setSelectedStations"
    /\ isRunning
    /\ simulationTime > 0
    /\ animationTime > 0
    /\ totalTripsStarted > 0

\* progress of slot a after `elapsed` ms of animation, as num/den.
ProgressAfter(elapsed, a) ==
    [num |-> Min(elapsed, a.animationDuration), den |-> a.animationDuration]

\* C9: an update of the running engine gives every trip that stays Active
\* the progress of the animation time it had at the last sample plus all the
\* wall-clock time the engine has spent running since, whether or not a
\* pause() and resume() lie in between: no animation time is lost or gained
\* at the pause boundary.
C9_PauseKeepsProgress ==
    [][(/\ lastOp' = "updateSimulation"
        /\ isRunning
        /\ Len(filteredTrips) > 0)
       => \A i \in 1 .. Len(activeTrips') :
              (\E j \in 1 .. Len(activeTrips) :
                   /\ activeTrips[j].obj = activeTrips'[i].obj
                   /\ activeTrips[j].trip = activeTrips'[i].trip)
              => activeTrips'[i].progress =
                     ProgressAfter(animationTime + runningSinceSample
                                       - activeTrips'[i].startTime,
                                   activeTrips'[i])
    ]_vars

\* C10: except in reset, the simulated offset never decreases, it does not
\* change in any step taken while the engine is not running, and it never
\* exceeds what the wall-clock time spent running gives at the highest speed
\* (real time that elapses while paused is not added).
C10_OffsetMonotone ==
    /\ [][lastOp' # "reset" =>
            /\ simulationTime' >= simulationTime
            /\ ~isRunning => simulationTime' = simulationTime]_vars
    /\ [](2 * simulationTime <= runningReal * timeScale * MaxSpeed2)

\* updateSimulation is called on a paused engine that has run before, after
\* wall-clock time has passed since the last sample.
C10_Witness ==
    /\ lastOp = "updateSimulation"
    /\ ~isRunning
    /\ simulationTime > 0
    /\ now > lastUpdateTime
    /\ Len(filteredTrips) > 0

\* ------------------------------------------------------------ C11 .. C20
\* startTrip would accept trip t under the current selection.
Startable(t) ==
    /\ IsValidStation(OriginOf(t))
    /\ OriginOf(t) \in selectedStationIndices

IsPrefix(a, b) == Len(a) <= Len(b) /\ SubSeq(b, 1, Len(a)) = a

\* C11: updateSimulation called while the engine is paused (it has started
\* trips and is not running) returns the same simulated time as the previous
\* call and advances nothing: the feed pointer, totalTripsStarted and the
\* trips of the Active set are unchanged and tripsStarted is 0.
C11_PausedAdvanceFrozen ==
    [][(/\ lastOp' = "updateSimulation"
        /\ ~isRunning
        /\ totalTripsStarted > 0
        /\ Len(filteredTrips) > 0)
       => /\ currentSimTime # NoTime => currentSimTime' = currentSimTime
          /\ simulationTime' = simulationTime
          /\ currentTripIndex' = currentTripIndex
          /\ totalTripsStarted' = totalTripsStarted
          /\ TripsOf(activeTrips') = TripsOf(activeTrips)
          /\ tripsStarted' = 0
    ]_vars

\* C12: after an updateSimulation executed while running on a non-empty
\* filtered feed, every trip of the filtered feed at or before the reported
\* simulated time lies before the feed pointer, and the trips started by the
\* call are the startable ones among those the pointer passed, in feed order.
C12_AllDueTripsInOneTick ==
    [][(lastOp' = "updateSimulation" /\ isRunning /\ Len(filteredTrips) > 0)
       => /\ \A i \in 1 .. Len(filteredTrips) :
                 TripStartTime(filteredTrips[i]) <= currentSimTime'[1]
                     => i <= currentTripIndex'
          /\ currentTripIndex' >= currentTripIndex
          /\ tripsStarted' = currentTripIndex' - currentTripIndex
          /\ lastStarted' = SelectSeq(SubSeq(filteredTrips,
                                             currentTripIndex + 1,
                                             currentTripIndex'), Startable)
    ]_vars

\* Scenario A: 20 ms at speed 1 make 10 s of simulated time, and one call
\* has started several trips.
C12_Witness ==
    /\ lastOp = "updateSimulation"
    /\ isRunning
    /\ simulationTime = 20 * timeScale
    /\ tripsStarted >= 2
    /\ Len(lastStarted) >= 2
    /\ Timestamp(lastStarted[1]) < Timestamp(lastStarted[2])

\* C13: reset() empties the Active set and the Completed buffer, leaves every
\* slot that was in use in its pool's free list, zeroes the feed pointer,
\* totalTripsStarted, the simulated offset and the animation clock, and
\* leaves the engine not running.
C13_ResetReleasesAndZeroes ==
    [][lastOp' = "reset"
       => /\ activeTrips' = <<>>
          /\ completedPaths' = <<>>
          /\ Range(ObjectsOf(activeTrips)) \subseteq
                 Range(activeTripPool'.available)
          /\ Range(ObjectsOf(completedPaths)) \subseteq
                 Range(completedPathPool'.available)
          /\ currentTripIndex' = 0
          /\ totalTripsStarted' = 0
          /\ simulationTime' = 0
          /\ animationTime' = 0
          /\ ~isRunning'
    ]_vars

\* reset() has released slots of both kinds.
C13_Witness ==
    /\ lastOp = "reset"
    /\ released.active # <<>>
    /\ released.completed # <<>>

\* C14: two runs over the same feed and selection, each begun by reset() or
\* a restart, produce the same sequence of start events whatever the
\* wall-clock intervals: the start log of one is a prefix of the other's.
C14_DeterministicStarts ==
    (cleanRun /\ previousRun # <<>>)
        => \/ IsPrefix(startLog, previousRun[1])
           \/ IsPrefix(previousRun[1], startLog)

\* A second run has started more trips than the run before it, which had
\* started some.
C14_Witness ==
    /\ lastOp = "updateSimulation"
    /\ cleanRun
    /\ previousRun # <<>>
    /\ Len(startLog) > Len(previousRun[1])

\* No trip of the feed has its origin in the selection (or the feed is empty).
Idle ==
    \A i \in 1 .. Len(allTrips) :
        allTrips[i].startStationIndex \notin selectedStationIndices

\* C15: with an empty feed or a selection that matches no trip origin (the
\* empty selection included), updateSimulation and render start no trip,
\* the Active set stays empty, and getStats reports zero available trips,
\* no trip started and progress 0.
C15_IdlesWhenNothingMatches ==
    [][(loaded /\ Idle /\ lastOp' \in {"updateSimulation", "render"})
       => /\ activeTrips' = <<>>
          /\ lastOp' = "updateSimulation" =>
                 (tripsStarted' = 0 /\ lastStarted' = <<>>)
          /\ GetStats'.totalTripsStarted = GetStats.totalTripsStarted
          /\ GetStats'.totalAvailableTrips = 0
          /\ GetStats'.progress.num = 0
    ]_vars

\* C16: a trip whose origin is missing, negative or past the station list
\* never gets a slot, and a running updateSimulation goes past it: every
\* startable trip at or after the feed pointer that is due is started.
C16_InvalidOriginNeverStarts ==
    /\ [](\A i \in 1 .. Len(activeTrips) :
              IsValidStation(OriginOf(activeTrips[i].trip)))
    /\ [](\A i \in 1 .. Len(completedPaths) :
              IsValidStation(OriginOf(completedPaths[i].trip)))
    /\ [](\A i \in 1 .. Len(startLog) : IsValidStation(OriginOf(startLog[i])))
    /\ [][(lastOp' = "updateSimulation" /\ isRunning)
          => \A i \in (currentTripIndex + 1) .. Len(filteredTrips) :
                 (/\ TripStartTime(filteredTrips[i]) <= currentSimTime'[1]
                  /\ Startable(filteredTrips[i]))
                     => filteredTrips[i] \in Range(lastStarted')
       ]_vars

\* One call went past a trip with an invalid origin and started a later one.
C16_Witness ==
    /\ lastOp = "updateSimulation"
    /\ lastStarted # <<>>
    /\ \E i \in 1 .. Len(filteredTrips) :
           /\ ~IsValidStation(OriginOf(filteredTrips[i]))
           /\ filteredTrips[i] < lastStarted[1]
           /\ i > currentTripIndex - tripsStarted

\* The trips at or after the feed pointer that are due at the time the call
\* reports are all passed by the pointer, the startable ones are started,
\* and the trips started are in ascending timestamp order.
StartsPendingBatch ==
    /\ \A i \in (currentTripIndex + 1) .. Len(filteredTrips) :
           TripStartTime(filteredTrips[i]) <= currentSimTime'[1]
               => /\ i <= currentTripIndex'
                  /\ Startable(filteredTrips[i])
                         => filteredTrips[i] \in Range(lastStarted')
    /\ \A i, j \in 1 .. Len(lastStarted') :
           i < j => Timestamp(lastStarted'[i]) <= Timestamp(lastStarted'[j])

JumpAddsHours ==
    lastOp' = "jumpTime"
        => /\ \E hours \in JumpHours :
                  simulationTime' = simulationTime + hours * 3600000
           /\ isRunning' = isRunning

\* C17 as stated: jumpTime(hours) adds hours * 3600000 ms to the offset,
\* running or paused, and the next updateSimulation (here on an engine that
\* has started trips before) starts every pending trip at or before the new
\* simulated time in one batch, ascending by timestamp.
C17_JumpBatchOnNextAdvance ==
    [][/\ JumpAddsHours
       /\ (/\ lastOp = "jumpTime"
           /\ lastOp' = "updateSimulation"
           /\ totalTripsStarted > 0
           /\ Len(filteredTrips) > 0) => StartsPendingBatch
    ]_vars

\* C17 amended: the batch is started by the next updateSimulation that is
\* executed while the engine is running.
C17_JumpBatchOnNextRunningAdvance ==
    [][/\ JumpAddsHours
       /\ (/\ lastOp = "jumpTime"
           /\ lastOp' = "updateSimulation"
           /\ isRunning
           /\ Len(filteredTrips) > 0) => StartsPendingBatch
    ]_vars

\* Scenario D: right after jumpTime(6) on a running engine one call has
\* started several pending trips.
C17_Witness ==
    /\ lastOp = "updateSimulation"
    /\ isRunning
    /\ simulationTime = 6 * 3600000
    /\ tripsStarted >= 2
    /\ Len(lastStarted) >= 2
    /\ totalTripsStarted > tripsStarted

\* C18: startSimulation is a true restart (pointer 0, both lists empty,
\* counter 0, animation clock 0) exactly when the offset is 0; otherwise it
\* leaves pointer, lists, counter, offset and animation clock unchanged and
\* only re-anchors the last-sample timestamp and the animation-clock origin.
C18_StartRestartsIffOffsetZero ==
    [][lastOp' = "startSimulation"
       => /\ isRunning'
          /\ lastUpdateTime' = now
          /\ simulationTime = 0
                 => /\ currentTripIndex' = 0
                    /\ activeTrips' = <<>>
                    /\ completedPaths' = <<>>
                    /\ totalTripsStarted' = 0
                    /\ simulationTime' = 0
                    /\ animationTime' = 0
                    /\ animationStartTime' = now
          /\ simulationTime # 0
                 => /\ UNCHANGED <<currentTripIndex, activeTrips,
                                   completedPaths, totalTripsStarted,
                                   simulationTime, animationTime,
                                   activeTripPool, completedPathPool,
                                   filteredTrips, selectedStationIndices>>
                    /\ animationStartTime' = now - animationTime
    ]_vars

\* startSimulation was called on a paused engine with a positive offset and
\* trips in flight, after wall-clock time had passed.
C18_Witness ==
    /\ lastOp = "startSimulation"
    /\ simulationTime > 0
    /\ activeTrips # <<>>
    /\ totalTripsStarted > 0
    /\ animationStartTime > StartOfTime

\* The subsequence of the feed with origin in sel, the whole feed when sel
\* is every station.
SelectedSubsequence(sel) ==
    LET ids == [i \in 1 .. Len(allTrips) |-> i]
        In(i) == allTrips[i].startStationIndex \in sel
    IN  IF sel = 0 .. (stations - 1) THEN ids ELSE SelectSeq(ids, In)

\* C19: the filtered feed is exactly the subsequence, in feed order, of the
\* trips whose origin is in the selection (the whole feed when all stations
\* are selected), and getStats().totalAvailableTrips is its length.
C19_FilteredFeedIsSelection ==
    loaded => /\ filteredTrips = SelectedSubsequence(selectedStationIndices)
              /\ GetStats.totalAvailableTrips =
                     Len(SelectedSubsequence(selectedStationIndices))

\* C20: the feed pointer never decreases over updateSimulation, pause,
\* resume and render (nor while the clock advances); it changes otherwise
\* only in setSelectedStations, or to 0 in reset and in a true restart.
C20_PointerOnlyForward ==
    [][/\ lastOp' \in {"updateSimulation", "pause", "resume", "render", "tick"}
           => currentTripIndex' >= currentTripIndex
       /\ lastOp' \in {"pause", "resume", "render", "tick"}
           => currentTripIndex' = currentTripIndex
       /\ lastOp' \in {"reset", "startSimulation", "initializeWithData"}
           => currentTripIndex' \in {0, currentTripIndex}
       /\ (lastOp' = "startSimulation" /\ simulationTime # 0)
           => currentTripIndex' = currentTripIndex
    ]_vars

\* The pointer has advanced in two separate calls, and wall-clock time has
\* passed while the engine was not running.
C20_Witness ==
    /\ lastOp = "updateSimulation"
    /\ tripsStarted > 0
    /\ currentTripIndex > tripsStarted
    /\ runningSinceSample = 0
    /\ runningReal < now - StartOfTime

\* ------------------------------------------------------------ C21 .. C30
\* The station indices a caller may ask about: the stations, and indices
\* below and above them.
QueryIndices == (0 - 2) .. (NumStations + 1)

TripsFrom(i) == {k \in 1 .. Len(allTrips) : allTrips[k].startStationIndex = i}

\* C21: getStationTripCount(i) is the number of trips of the whole feed
\* whose origin is i for every valid station index i and 0 for any other
\* index, and once the feed is loaded no operation changes it.
C21_StationTripCounts ==
    /\ [](\A i \in QueryIndices :
              GetStationTripCount(i) =
                  IF i \in 0 .. (stations - 1)
                  THEN Cardinality(TripsFrom(i))
                  ELSE 0)
    /\ [][loaded => stationTripCounts' = stationTripCounts]_vars

\* The feed has trips with an invalid origin, a filter hides part of it and
\* trips have been started; a selected station has two trips in the feed.
C21_Witness ==
    /\ loaded
    /\ Len(filteredTrips) < Len(allTrips)
    /\ totalTripsStarted > 0
    /\ \E k \in 1 .. Len(allTrips) :
           ~IsValidStation(allTrips[k].startStationIndex)
    /\ \E i \in selectedStationIndices : GetStationTripCount(i) = 2

\* A completed path is within the retention window and its origin selected.
Retained(c) ==
    /\ animationTime - c.completedAt <= maxAge
    /\ c.startStationIndex \in selectedStationIndices

\* C22: render() changes neither the feed pointer, the clocks, the counters,
\* the running flag, the filter nor any Active slot; all it changes is the
\* Completed buffer, from which it removes (and releases) exactly the slots
\* that are expired or no longer selected; a slot whose drawing is skipped
\* stays as it is.
C22_RenderLeavesScheduling ==
    [][lastOp' = "render"
       => /\ UNCHANGED <<currentTripIndex, simulationTime, lastUpdateTime,
                         animationTime, animationStartTime, totalTripsStarted,
                         isRunning, activeTrips, activeTripPool,
                         selectedStationIndices, filteredTrips,
                         stationTripCounts>>
          /\ completedPaths' = SelectSeq(completedPaths, Retained)
          /\ Len(completedPathPool'.available) =
                 Len(completedPathPool.available)
                 + Len(completedPaths) - Len(completedPaths')
          /\ \A t \in Range(released'.skipped) :
                 \/ \E i \in 1 .. Len(completedPaths) :
                        /\ completedPaths[i].trip = t
                        /\ completedPaths[i] \in Range(completedPaths')
                 \/ \E i \in 1 .. Len(activeTrips) :
                        /\ activeTrips[i].trip = t
                        /\ activeTrips'[i] = activeTrips[i]
    ]_vars

\* render() ran on a running engine, some wall-clock time after the last
\* update, and skipped the drawing of a completed path (endpoints too
\* close) and of a trip in flight (endpoints too far apart).
C22_Witness ==
    /\ lastOp = "render"
    /\ isRunning
    /\ now > lastUpdateTime
    /\ \E i \in 1 .. Len(completedPaths) :
           /\ completedPaths[i].trip \in Range(released.skipped)
           /\ PixelDistanceOf(completedPaths[i].trip) < 2
    /\ \E i \in 1 .. Len(activeTrips) :
           /\ activeTrips[i].trip \in Range(released.skipped)
           /\ PixelDistanceOf(activeTrips[i].trip) > 2

\* The Completed slots an update makes for the trips `fin`, without the
\* pooled object.
CompletedFor(fin, at) ==
    [i \in 1 .. Len(fin) |-> [trip              |-> fin[i],
                              completedAt       |-> at,
                              startStationIndex |-> OriginOf(fin[i])]]

WithoutObject(slots) ==
    [i \in 1 .. Len(slots) |-> [trip              |-> slots[i].trip,
                                completedAt       |-> slots[i].completedAt,
                                startStationIndex |-> slots[i].startStationIndex]]

IsSuffix(a, b) ==
    Len(a) <= Len(b) /\ SubSeq(b, Len(b) - Len(a) + 1, Len(b)) = a

\* C23: every Active slot references a trip of the feed and has
\* 0 <= progress < 1; in an update, each slot whose progress reaches 1
\* leaves the Active set, its object is released to the active-trip pool,
\* and one Completed slot with the trip, its origin and completedAt = the
\* animation clock is appended for it (before the FIFO cap is applied).
C23_ActiveProgressBelowOne ==
    /\ [](\A i \in 1 .. Len(activeTrips) :
              /\ activeTrips[i].trip \in 1 .. Len(allTrips)
              /\ activeTrips[i].progress.num >= 0
              /\ activeTrips[i].progress.num < activeTrips[i].progress.den)
    /\ [][lastOp' = "updateSimulation"
          => /\ Len(activeTrips') + Len(released'.finished) =
                    Len(activeTrips) + Len(lastStarted')
             /\ Range(released'.active) \cap Range(ObjectsOf(activeTrips')) = {}
             /\ Range(released'.active) \subseteq
                    Range(activeTripPool'.available)
             /\ Len(released'.active) = Len(released'.finished)
             /\ IsSuffix(WithoutObject(completedPaths'),
                         WithoutObject(completedPaths)
                             \o CompletedFor(released'.finished,
                                             animationTime'))
             /\ Len(completedPaths') =
                    Min(MAX_DISPLAYED_TRIPS,
                        Len(completedPaths) + Len(released'.finished))
       ]_vars

\* One update retired a slot while another slot stays in flight with a
\* progress strictly between 0 and 1.
C23_Witness ==
    /\ lastOp = "updateSimulation"
    /\ released.finished # <<>>
    /\ \E i \in 1 .. Len(activeTrips) : activeTrips[i].progress.num > 0

\* C24: a trip that becomes Active is retired by the first update at which
\* 5000 ms of animation clock have elapsed since it started, and not before
\* 1000 ms have elapsed: in particular it is still Active at the end of the
\* update that started it.
C24_RetiredWithinWindow ==
    [][(lastOp' = "updateSimulation" /\ isRunning)
       => /\ \A i \in 1 .. Len(activeTrips') :
                 animationTime' - activeTrips'[i].startTime < 5000
          /\ \A t \in Range(lastStarted') :
                 t \in Range(TripsOf(activeTrips'))
    ]_vars

\* C25: after render() no Completed slot older than maxAge remains, every
\* expired slot has been released to the pool once, and the slots within
\* the window whose origin is selected are all retained, in order.
C25_RenderExpiresOldPaths ==
    /\ [][lastOp' = "render"
          => LET Expired(c) == ~Retained(c)
                 gone == ObjectsOf(SelectSeq(completedPaths, Expired))
             IN  /\ \A i \in 1 .. Len(completedPaths') :
                        animationTime' - completedPaths'[i].completedAt <= maxAge
                 /\ completedPaths' = SelectSeq(completedPaths, Retained)
                 /\ completedPathPool'.available =
                        completedPathPool.available \o gone
                 /\ released'.completed = gone
       ]_vars
    /\ [](NoDuplicates(completedPathPool.available))

\* render() released a path older than maxAge and retained a younger one.
C25_Witness ==
    /\ lastOp = "render"
    /\ animationTime > maxAge
    /\ released.completed # <<>>
    /\ completedPaths # <<>>

\* C26: a completed path that render() retains is drawn with its full base
\* opacity up to the fade threshold, with an opacity that does not grow
\* with age after it, and with an opacity above 0 at every age up to maxAge.
C26_NeverInvisibleBeforeExpiry ==
    lastOp = "render"
        => \A i \in 1 .. Len(completedPaths) :
               LET age == animationTime - completedPaths[i].completedAt
                   o   == FadedOpacity(age)
               IN  /\ age <= fadeStart => (o.num = 6 /\ o.den = 10)
                   /\ o.num * 10 <= 6 * o.den
                   /\ o.num > 0

\* C27: no pooled object leaks: in each pool the free list and the slots in
\* use account for every object the pool has created.
C27_NoLeak ==
    /\ Len(activeTripPool.available) + Len(activeTrips)
           = activeTripPool.created
    /\ Len(completedPathPool.available) + Len(completedPaths)
           = completedPathPool.created

\* C28: the feed pointer is between 0 and the length of the filtered feed,
\* so the progress getStats() reports is within [0, 1].
C28_PointerWithinFeed ==
    /\ currentTripIndex >= 0
    /\ currentTripIndex <= Len(filteredTrips)
    /\ GetStats.progress.num >= 0
    /\ GetStats.progress.num <= GetStats.progress.den

\* C29: tripsStarted returned by updateSimulation is the number of Active
\* slots it acquired, and totalTripsStarted grows by that number (a trip
\* startTrip refuses is not counted).
C29_CountersCountStarts ==
    [][lastOp' = "updateSimulation"
       => /\ tripsStarted' = Len(lastStarted')
          /\ totalTripsStarted' = totalTripsStarted + Len(lastStarted')
    ]_vars

\* C30: the simulated time two consecutive updateSimulation calls of a
\* running engine report on non-empty filtered feeds (no reset or restart
\* in between) does not decrease, also when setSelectedStations was called
\* between them.
C30_ReportedTimeMonotone ==
    [][(/\ lastOp' = "updateSimulation"
        /\ isRunning
        /\ totalTripsStarted > 0
        /\ currentSimTime # NoTime
        /\ currentSimTime' # NoTime)
       => currentSimTime'[1] >= currentSimTime[1]
    ]_vars

====
